---- MODULE Spec2Model ----
(***************************************************************************)
(* Model of src/lib.rs of snake-rust: the Game resource, the per-frame     *)
(* systems `input` and `update` (chained in that order), `setup_game`,     *)
(* `cleanup_game` and `new_food`.  One frame is an Input step followed by  *)
(* an Update step; the commands each system defers are applied at the end  *)
(* of the step, which is where the scheduler places its sync point.        *)
(***************************************************************************)
EXTENDS Integers, Sequences, FiniteSets, TLC

\* ------------------------------------------------------------ bounds
\* Frames played in one run.
MaxFrames == 4
\* Entries the pending-direction queue may hold (the source has no cap).
MaxQueue == 2
\* Largest frame delta, in timer units.
MaxDelta == 2
\* Restart requests in one run.
MaxRestarts == 1
\* Width of usize in bits (32 on wasm32, 64 natively).
USIZE_BITS == 16
\* Board cells the draws of rng.gen_range are taken from: the first FoodCells
\* cells of columns 9 and 10, counted row by row from row 5.
FoodCells == 4
\* Timer units in one tick period of 1/30 s.
TICK_PERIOD == 2
\* Frames of the long runs of SpecFar, and the frames that take key presses.
FarFrames == 42
FarInputFrames == 2
\* Cells a snake filling the board leaves free, at most, in the runs of
\* SpecFood.
MaxFree == 2

\* --------------------------------------------------------- constants
WIDTH == 50
HEIGHT == 40

VARIABLES
    game,         \* the Game resource
    entities,     \* the live visual entities spawned for the game
    next_entity,  \* the next entity id the world hands out
    phase,        \* the system the schedule runs next: "input" or "update"
    exit,         \* an AppExit event has been sent
    frame,        \* frames started so far
    restarts,     \* restarts done so far
    last,         \* the last step: its system, its inputs and what it did
    probe         \* the call under study, in the runs of a single function

vars ==
    <<game, entities, next_entity, phase, exit, frame, restarts, last, probe>>

\* ------------------------------------------------- coordinate model
USIZE == 2 ^ USIZE_BITS

Position(x, y) == [x |-> x, y |-> y]

Offset(x, y) == [x |-> x, y |-> y]

\* Position + Offset stopping at 0 in place of wrapping.
Add_saturating(self, rhs) ==
    [x |-> IF self.x + rhs.x < 0 THEN 0 ELSE self.x + rhs.x,
     y |-> IF self.y + rhs.y < 0 THEN 0 ELSE self.y + rhs.y]

\* (self.x as isize + rhs.x) as usize: two's complement, so the sum modulo
\* the word size.
Add(self, rhs) ==
    [x |-> (self.x + rhs.x) % USIZE, y |-> (self.y + rhs.y) % USIZE]

Neg(self) == [x |-> -self.x, y |-> -self.y]

\* is_out_of_bounds without the test of y.
is_out_of_bounds_x_only(position) == position.x >= WIDTH

is_out_of_bounds(position) == position.x >= WIDTH \/ position.y >= HEIGHT

\* -------------------------------------------------------------- keys
ArrowUp == Offset(0, -1)
ArrowDown == Offset(0, 1)
ArrowRight == Offset(1, 0)
ArrowLeft == Offset(-1, 0)

Arrows == {ArrowUp, ArrowDown, ArrowRight, ArrowLeft}

\* Pressed with push_front in place of push_back.
Pressed_push_front(q, keys) ==
    LET q1 == IF ArrowUp \in keys THEN <<ArrowUp>> \o q ELSE q
        q2 == IF ArrowDown \in keys THEN <<ArrowDown>> \o q1 ELSE q1
        q3 == IF ArrowRight \in keys THEN <<ArrowRight>> \o q2 ELSE q2
    IN  IF ArrowLeft \in keys THEN <<ArrowLeft>> \o q3 ELSE q3

\* The four `if input.just_pressed(..)` of `input`, in their order.
Pressed(q, keys) ==
    LET q1 == IF ArrowUp \in keys THEN Append(q, ArrowUp) ELSE q
        q2 == IF ArrowDown \in keys THEN Append(q1, ArrowDown) ELSE q1
        q3 == IF ArrowRight \in keys THEN Append(q2, ArrowRight) ELSE q2
    IN  IF ArrowLeft \in keys THEN Append(q3, ArrowLeft) ELSE q3

\* ------------------------------------------------------------ spawner
new_node(entity, position) == [entity |-> entity, position |-> position]

spawn_food(entity, position) == [entity |-> entity, position |-> position]

None == <<>>
Some(v) == <<v>>

\* ------------------------------------------------------------- timer
Timer == [elapsed |-> 0, times_finished_this_tick |-> 0]

\* Timer::tick of a repeating timer, then just_finished().
TimerTick(timer, delta) ==
    LET elapsed == timer.elapsed + delta
    IN  IF elapsed >= TICK_PERIOD
        THEN [elapsed |-> elapsed % TICK_PERIOD,
              times_finished_this_tick |-> elapsed \div TICK_PERIOD]
        ELSE [elapsed |-> elapsed, times_finished_this_tick |-> 0]

just_finished(timer) == timer.times_finished_this_tick > 0

\* ---------------------------------------------------------- new_food
\* rng.gen_range(low..high)
gen_range(low, high) == low..(high - 1)

FoodSamples ==
    {p \in {Position(x, y) : x \in gen_range(0, WIDTH), y \in gen_range(0, HEIGHT)} :
        \E k \in 0..(FoodCells - 1) : p = Position(9 + (k % 2), 5 + (k \div 2))}

\* Occupied testing the head alone.
Occupied_head_only(nodes, position) ==
    nodes # <<>> /\ nodes[Len(nodes)].position = position

Occupied(nodes, position) ==
    \E i \in 1..Len(nodes) : nodes[i].position = position

\* FoodPositions without the rejection test of the loop.
FoodPositions_any(nodes) == FoodSamples

\* The positions the rejection loop of new_food can break with.
FoodPositions(nodes) == {p \in FoodSamples : ~Occupied(nodes, p)}

\* new_food spawning a food entity on every call.
new_food_respawning(g, position, entity) ==
    [g EXCEPT !.food = Some(spawn_food(entity, position))]

\* new_food once the loop has drawn `position`; `entity` is the id a spawn
\* would get.
new_food(g, position, entity) ==
    IF g.food # None
    THEN [g EXCEPT !.food = Some([g.food[1] EXCEPT !.position = position])]
    ELSE [g EXCEPT !.food = Some(spawn_food(entity, position))]

\* -------------------------------------------------------- setup_game
\* StartNodes with the columns counted from 6.
StartNodes_from_six(first) ==
    [i \in 1..5 |-> new_node(first + i - 1, Position(5 + i, 5))]

StartNodes(first) ==
    [i \in 1..5 |-> new_node(first + i - 1, Position(5 + (i - 1), 5))]

\* The Game of setup_game when it calls new_food.
NewGame(first) ==
    [dead |-> FALSE,
     food |-> None,
     player |-> [nodes |-> StartNodes(first), facing |-> Offset(1, 0)],
     tick_timer |-> Timer,
     input_queue |-> <<>>]

\* The Games setup_game can insert, spawning entities from id `first` on.
setup_game(first) ==
    LET g0 == NewGame(first)
    IN  {new_food(g0, p, first + 5) : p \in FoodPositions(g0.player.nodes)}

\* The entities setup_game spawns: five nodes and the food.
setup_spawns(first) == first..(first + 5)

\* cleanup_game without the despawn of the food.
cleanup_game_nodes_only(g) ==
    {g.player.nodes[i].entity : i \in 1..Len(g.player.nodes)}

\* The entities cleanup_game despawns.
cleanup_game(g) ==
    {g.player.nodes[i].entity : i \in 1..Len(g.player.nodes)}
        \cup {g.food[i].entity : i \in 1..Len(g.food)}

\* The entity handles a Game holds.
GameEntities(g) ==
    {n.entity : n \in {g.player.nodes[i] : i \in 1..Len(g.player.nodes)}}
        \cup (IF g.food = None THEN {} ELSE {g.food[1].entity})

\* The world's entities once a system's deferred commands are applied, in
\* the order they were issued: the despawns of cleanup_game, then the spawns.
apply_deferred(world, despawned, spawned) == (world \ despawned) \cup spawned

\* ------------------------------------------------------------ update
\* DrainQueue without the `break`: the loop goes on after accepting.
RECURSIVE DrainQueue_no_break(_, _)
DrainQueue_no_break(queue, facing) ==
    IF queue = <<>>
    THEN [facing |-> facing, input_queue |-> queue]
    ELSE LET next == Head(queue)
         IN  IF next # facing /\ next # Neg(facing)
             THEN DrainQueue_no_break(Tail(queue), next)
             ELSE DrainQueue_no_break(Tail(queue), facing)

\* DrainQueue without the test against -facing.
RECURSIVE DrainQueue_reversing(_, _)
DrainQueue_reversing(queue, facing) ==
    IF queue = <<>>
    THEN [facing |-> facing, input_queue |-> queue]
    ELSE LET next == Head(queue)
         IN  IF next # facing
             THEN [facing |-> next, input_queue |-> Tail(queue)]
             ELSE DrainQueue_reversing(Tail(queue), facing)

\* while let Some(next) = input_queue.pop_front() { .. break }
RECURSIVE DrainQueue(_, _)
DrainQueue(queue, facing) ==
    IF queue = <<>>
    THEN [facing |-> facing, input_queue |-> queue]
    ELSE LET next == Head(queue)
         IN  IF next # facing /\ next # Neg(facing)
             THEN [facing |-> next, input_queue |-> Tail(queue)]
             ELSE DrainQueue(Tail(queue), facing)

\* SwapChain iterating tail to head (without the .rev()).
SwapChain_forward(nodes, i, position) ==
    [k \in 1..Len(nodes) |->
        [nodes[k] EXCEPT !.position =
            IF k = 1 THEN position ELSE nodes[k - 1].position]]

\* for node in nodes.iter_mut().rev() { swap(&mut position, &mut node.position) }
\* from index i down to 1.
RECURSIVE SwapChain(_, _, _)
SwapChain(nodes, i, position) ==
    IF i = 0
    THEN nodes
    ELSE SwapChain([nodes EXCEPT ![i].position = position], i - 1,
                   nodes[i].position)

Overlapping(nodes, position) ==
    Cardinality({i \in 1..Len(nodes) : nodes[i].position = position})

\* Collided taking the head itself for an overlap.
Collided_counting_head(nodes, next_position) ==
    Overlapping(nodes, next_position) > 0 \/ is_out_of_bounds(next_position)

\* Collided without the count of overlapping nodes.
Collided_bounds_only(nodes, next_position) == is_out_of_bounds(next_position)

Collided(nodes, next_position) ==
    Overlapping(nodes, next_position) > 1 \/ is_out_of_bounds(next_position)

HeadPosition(g) == g.player.nodes[Len(g.player.nodes)].position

\* The condition of the `if` of update; the timer is ticked only when the
\* game is not dead.
Fires(g, delta) == ~g.dead /\ just_finished(TimerTick(g.tick_timer, delta))

\* The Game after direction selection on a firing tick.
Selected(g, delta) ==
    LET d == DrainQueue(g.input_queue, g.player.facing)
    IN  [g EXCEPT !.tick_timer = TimerTick(g.tick_timer, delta),
                  !.input_queue = d.input_queue,
                  !.player.facing = d.facing]

NextPosition(g) == Add(HeadPosition(g), g.player.facing)

\* Eats taking the move branch on the food cell too.
Eats_never(g) == FALSE

Eats(g) == g.food # None /\ g.food[1].position = NextPosition(g)

\* The Games a firing tick can leave, `entity` being the next free id.
Tick(g, delta, entity) ==
    LET s == Selected(g, delta)
        next_position == NextPosition(s)
    IN  IF Eats(s)
        THEN LET grown == [s EXCEPT !.player.nodes =
                               Append(@, new_node(entity, next_position))]
             IN  {[f EXCEPT !.dead = @ \/ Collided(f.player.nodes,
                                                    next_position)]
                    : f \in {new_food(grown, p, entity + 1)
                               : p \in FoodPositions(grown.player.nodes)}}
        ELSE LET moved == [s EXCEPT !.player.nodes =
                               SwapChain(@, Len(@), next_position)]
             IN  {[moved EXCEPT !.dead =
                       @ \/ Collided(moved.player.nodes, next_position)]}

\* update ticking the timer only on the frames that fire.
update_idle_frozen(g, delta, entity) ==
    IF g.dead
    THEN {g}
    ELSE IF ~just_finished(TimerTick(g.tick_timer, delta))
         THEN {g}
         ELSE Tick(g, delta, entity)

\* The Games the update system can leave.
update(g, delta, entity) ==
    IF g.dead
    THEN {g}
    ELSE IF ~just_finished(TimerTick(g.tick_timer, delta))
         THEN {[g EXCEPT !.tick_timer = TimerTick(g.tick_timer, delta)]}
         ELSE Tick(g, delta, entity)

\* -------------------------------------------------------------- input
\* input without the test of game.dead.
input_ignoring_dead(g, keys, r, first) ==
    IF r THEN setup_game(first)
    ELSE {[g EXCEPT !.input_queue = Pressed(@, keys)]}

\* input with a restart that keeps the pending directions.
input_keeping_queue(g, keys, r, first) ==
    LET pushed == IF ~g.dead
                  THEN [g EXCEPT !.input_queue = Pressed(@, keys)]
                  ELSE g
    IN  IF r
        THEN {[n EXCEPT !.input_queue = pushed.input_queue]
                : n \in setup_game(first)}
        ELSE {pushed}

\* The Games the input system can leave on a frame with `keys` just pressed
\* and R just released iff `r`; `first` is the next free entity id.  The
\* Game setup_game builds is inserted by a deferred command, applied before
\* update runs.
input(g, keys, r, first) ==
    LET pushed == IF ~g.dead
                  THEN [g EXCEPT !.input_queue = Pressed(@, keys)]
                  ELSE g
    IN  IF r THEN setup_game(first) ELSE {pushed}

\* The entities the input system despawns and spawns.
input_despawns(g, r) == IF r THEN cleanup_game(g) ELSE {}

input_spawns(r, first) == IF r THEN setup_spawns(first) ELSE {}

\* ------------------------------------------------------ state machine
\* What a step of update did: "idle" when the tick does not fire.
Branch(g, delta) ==
    IF ~Fires(g, delta) THEN "idle"
    ELSE IF Eats(Selected(g, delta)) THEN "eat" ELSE "move"

\* The queue entries a step of update popped.
Popped(g, delta) ==
    IF ~Fires(g, delta) THEN <<>>
    ELSE SubSeq(g.input_queue, 1,
                Len(g.input_queue) - Len(Selected(g, delta).input_queue))

\* The entities the update system spawns: the new node of an eat.
update_spawns(g, delta, entity) ==
    IF Branch(g, delta) = "eat" THEN {entity} ELSE {}

NoProbe == [pc |-> "none"]

Init ==
    /\ game \in setup_game(1)
    /\ entities = apply_deferred({}, {}, setup_spawns(1))
    /\ next_entity = 7
    /\ probe = NoProbe
    /\ phase = "input"
    /\ exit = FALSE
    /\ frame = 0
    /\ restarts = 0
    /\ last = [event |-> "setup", keys |-> {}, r |-> FALSE, esc |-> FALSE,
               dead |-> FALSE, delta |-> 0, branch |-> "none",
               popped |-> <<>>]

\* The input system on a frame with `keys` just pressed, R just released iff
\* `r`, and Escape held iff `esc`.
InputStep(keys, r, esc) ==
    /\ phase = "input"
    /\ ~exit
    /\ Len(game.input_queue) + Cardinality(keys) <= MaxQueue
    /\ r => restarts < MaxRestarts
    /\ game' \in input(game, keys, r, next_entity)
    /\ entities' = apply_deferred(entities, input_despawns(game, r),
                                  input_spawns(r, next_entity))
    /\ next_entity' = next_entity + Cardinality(input_spawns(r, next_entity))
    /\ restarts' = IF r THEN restarts + 1 ELSE restarts
    /\ UNCHANGED probe
    /\ exit' = esc
    /\ phase' = "update"
    /\ frame' = frame + 1
    /\ last' = [event |-> "input", keys |-> keys, r |-> r, esc |-> esc,
                dead |-> game.dead, delta |-> 0, branch |-> "none",
                popped |-> <<>>]

\* The update system on a frame whose delta time is `delta`.
UpdateStep(delta) ==
    /\ phase = "update"
    /\ game' \in update(game, delta, next_entity)
    /\ entities' = apply_deferred(entities, {},
                                  update_spawns(game, delta, next_entity))
    /\ next_entity' =
           next_entity + Cardinality(update_spawns(game, delta, next_entity))
    /\ phase' = "input"
    /\ UNCHANGED probe
    /\ last' = [event |-> "update", keys |-> {}, r |-> FALSE, esc |-> FALSE,
                dead |-> game.dead, delta |-> delta,
                branch |-> Branch(game, delta), popped |-> Popped(game, delta)]
    /\ UNCHANGED <<exit, frame, restarts>>

\* Escape is held on frames without arrow presses only.
Input ==
    /\ frame < MaxFrames
    /\ \E keys \in SUBSET Arrows, r \in BOOLEAN, esc \in BOOLEAN :
           /\ esc => keys = {}
           /\ InputStep(keys, r, esc)

Update == \E delta \in 1..MaxDelta : UpdateStep(delta)

Next == Input \/ Update

Spec == Init /\ [][Next]_vars

\* Long runs: key presses in the first FarInputFrames frames only, no
\* restart, no exit, and every frame as long as one tick period.
FarInput ==
    /\ frame < FarFrames
    /\ \E keys \in SUBSET Arrows :
           /\ frame >= FarInputFrames => keys = {}
           /\ InputStep(keys, FALSE, FALSE)

FarUpdate == UpdateStep(TICK_PERIOD)

NextFar == FarInput \/ FarUpdate

SpecFar == Init /\ [][NextFar]_vars

\* ------------------------------------------- the loop of new_food
\* The board as one path: row 0 left to right, row 1 right to left, ...
PathCell(k) ==
    LET y == k \div WIDTH
    IN  Position(IF y % 2 = 0 THEN k % WIDTH ELSE WIDTH - 1 - (k % WIDTH), y)

\* A snake along the path that leaves its first `free` cells free, its head
\* on the last cell, where it has just eaten.
FullGame(free) ==
    LET n == WIDTH * HEIGHT - free
        nodes == [i \in 1..n |-> new_node(i, PathCell(free + i - 1))]
    IN  [dead |-> FALSE,
         food |-> Some(spawn_food(n + 1, nodes[n].position)),
         player |-> [nodes |-> nodes, facing |-> Offset(-1, 0)],
         tick_timer |-> Timer,
         input_queue |-> <<>>]

\* new_food is called by setup_game, or by an eat that leaves at most
\* MaxFree cells free.
InitFood ==
    /\ game \in {NewGame(1)} \cup {FullGame(free) : free \in 0..MaxFree}
    /\ entities = GameEntities(game)
    /\ next_entity = Cardinality(GameEntities(game)) + 1
    /\ phase = "update"
    /\ exit = FALSE
    /\ frame = 0
    /\ restarts = 0
    /\ last = [event |-> "setup", keys |-> {}, r |-> FALSE, esc |-> FALSE,
               dead |-> FALSE, delta |-> 0, branch |-> "none",
               popped |-> <<>>]
    /\ probe = [pc |-> "new_food"]

\* One turn of the loop of new_food, drawing x and y.
FoodLoop(x, y) ==
    /\ probe.pc = "new_food"
    /\ LET position == Position(x, y)
       IN  IF ~Occupied(game.player.nodes, position)
           THEN /\ game' = new_food(game, position, next_entity)
                /\ entities' = GameEntities(game')
                /\ next_entity' =
                       next_entity + Cardinality(GameEntities(game') \ entities)
                /\ probe' = [pc |-> "broke"]
           ELSE UNCHANGED <<game, entities, next_entity, probe>>
    /\ UNCHANGED <<phase, exit, frame, restarts, last>>

NextFood ==
    \E x \in gen_range(0, WIDTH), y \in gen_range(0, HEIGHT) : FoodLoop(x, y)

\* A turn that breaks out of the loop.
FoodBreak == probe.pc = "new_food" /\ NextFood /\ probe'.pc = "broke"

\* The generator is fair: it does not avoid the free cells forever.
SpecFood == InitFood /\ [][NextFood]_vars /\ WF_vars(FoodBreak)

\* ------------------------------------- is_out_of_bounds(position + offset)
\* Any in-board position and any of the four unit offsets.
InitBounds ==
    /\ game \in setup_game(1)
    /\ entities = apply_deferred({}, {}, setup_spawns(1))
    /\ next_entity = 7
    /\ phase = "input"
    /\ exit = FALSE
    /\ frame = 0
    /\ restarts = 0
    /\ last = [event |-> "setup", keys |-> {}, r |-> FALSE, esc |-> FALSE,
               dead |-> FALSE, delta |-> 0, branch |-> "none",
               popped |-> <<>>]
    /\ \E x \in 0..(WIDTH - 1), y \in 0..(HEIGHT - 1), d \in Arrows :
           probe = [pc |-> "call", p |-> Position(x, y), d |-> d]

\* next = position + offset, then is_out_of_bounds(next).
BoundsStep ==
    /\ probe.pc = "call"
    /\ probe' = [pc |-> "return", p |-> probe.p, d |-> probe.d,
                 next |-> Add(probe.p, probe.d),
                 out |-> is_out_of_bounds(Add(probe.p, probe.d))]
    /\ UNCHANGED <<game, entities, next_entity, phase, exit, frame, restarts,
                   last>>

SpecBounds == InitBounds /\ [][BoundsStep]_vars

\* -------------------------------------------------------- properties
Positions(nodes) == [i \in 1..Len(nodes) |-> nodes[i].position]

\* A step of the update system in which the tick fires.
FiredTick ==
    /\ phase = "update" /\ phase' = "input"
    /\ ~game.dead
    /\ just_finished(game'.tick_timer)

\* head + facing, after direction selection.
NextHead == Add(HeadPosition(game), game'.player.facing)

InBoard(p) == p.x \in 0..(WIDTH - 1) /\ p.y \in 0..(HEIGHT - 1)

\* C1: on a firing tick whose next head cell is not the food cell, the
\* number of segments is unchanged, every non-head segment takes the
\* position the segment ahead of it had, the head takes old head + facing,
\* and the tail leaves its old cell.
C1_MoveShifts ==
    [][(FiredTick /\ NextHead # game.food[1].position) =>
          LET old == Positions(game.player.nodes)
              new == Positions(game'.player.nodes)
          IN  /\ Len(new) = Len(old)
              /\ \A i \in 1..(Len(old) - 1) : new[i] = old[i + 1]
              /\ new[Len(new)] = NextHead
              /\ new[1] # old[1]]_vars

C1_Witness ==
    /\ last.event = "update" /\ last.branch = "move"
    /\ Positions(game.player.nodes) =
           <<Position(6, 5), Position(7, 5), Position(8, 5), Position(9, 5),
             Position(9, 6)>>
    /\ game.food[1].position # Position(9, 6)

\* C2: on a firing tick whose next head cell is the food cell, the snake
\* gains exactly one segment, appended as the new head at the old food
\* cell, every earlier segment keeps its position, and the food is moved to
\* an in-board cell that no segment of the grown snake occupies.
C2_EatGrows ==
    [][(FiredTick /\ NextHead = game.food[1].position) =>
          LET old == Positions(game.player.nodes)
              new == Positions(game'.player.nodes)
          IN  /\ Len(new) = Len(old) + 1
              /\ new[Len(new)] = game.food[1].position
              /\ SubSeq(new, 1, Len(old)) = old
              /\ InBoard(game'.food[1].position)
              /\ \A i \in 1..Len(new) : new[i] # game'.food[1].position]_vars

C2_Witness ==
    /\ last.event = "update" /\ last.branch = "eat"
    /\ Positions(game.player.nodes) =
           <<Position(5, 5), Position(6, 5), Position(7, 5), Position(8, 5),
             Position(9, 5), Position(9, 6)>>
    /\ game.food[1].position = Position(10, 6)

\* The indices of the queue entries direction selection can accept.
Acceptable(queue, facing) ==
    {i \in 1..Len(queue) : queue[i] # facing /\ queue[i] # Neg(facing)}

Least(S) == CHOOSE i \in S : \A j \in S : i <= j

\* C3: on a firing tick the first queued entry that is neither the facing
\* nor its opposite becomes the facing, the entries before it are dropped
\* and the entries behind it stay queued in order; when no entry qualifies
\* the facing is unchanged and the queue ends empty.
C3_DirectionSelection ==
    [][FiredTick =>
          LET queue == game.input_queue
              facing == game.player.facing
              ok == Acceptable(queue, facing)
          IN  IF ok = {}
              THEN /\ game'.player.facing = facing
                   /\ game'.input_queue = <<>>
              ELSE /\ game'.player.facing = queue[Least(ok)]
                   /\ game'.input_queue =
                          SubSeq(queue, Least(ok) + 1, Len(queue))]_vars

\* A tick that dropped one entry, accepted the next and left one queued.
C3_Witness ==
    /\ last.event = "update" /\ last.branch # "idle"
    /\ Len(last.popped) = 2
    /\ game.player.facing = last.popped[2]
    /\ game.player.facing # Offset(1, 0)
    /\ last.popped[1] \in {Offset(1, 0), Offset(-1, 0)}

\* C4: the facing after a tick is never the opposite of the facing before
\* it; when the only queued entry is the opposite of the facing, the tick
\* leaves the facing unchanged and the queue empty.
C4_NoReversal ==
    [][FiredTick =>
          /\ game'.player.facing # Neg(game.player.facing)
          /\ game.input_queue = <<Neg(game.player.facing)>> =>
                 /\ game'.player.facing = game.player.facing
                 /\ game'.input_queue = <<>>]_vars

C4_Witness ==
    /\ last.event = "update" /\ last.branch # "idle"
    /\ last.popped = <<Neg(game.player.facing)>>
    /\ game.input_queue = <<>>

\* C5 as stated: on a tick of a snake of length >= 4 whose next head cell is
\* the cell of any non-head segment before the tick, dead is set.
C5_AnySegmentKills ==
    [][FiredTick =>
          LET old == Positions(game.player.nodes)
          IN  (Len(old) >= 4 /\ \E i \in 1..(Len(old) - 1) : old[i] = NextHead)
                  => game'.dead]_vars

\* C5, amended: on a tick of a snake of length >= 4 whose next head cell is
\* the cell of a non-head segment other than the tail before the tick, dead
\* is set; when it is the cell of the tail, which the shift vacates before
\* the overlap is counted, dead is not set.
C5_SelfCollision ==
    [][FiredTick =>
          LET old == Positions(game.player.nodes)
          IN  Len(old) >= 4 =>
                  /\ (\E i \in 2..(Len(old) - 1) : old[i] = NextHead)
                         => game'.dead
                  /\ old[1] = NextHead => ~game'.dead]_vars

\* The head has just moved onto a segment of its own body.
C5_Witness ==
    /\ last.event = "update" /\ last.branch = "move"
    /\ game.dead
    /\ InBoard(HeadPosition(game))
    /\ Overlapping(game.player.nodes, HeadPosition(game)) = 2

\* The head, stepping by the selected facing, leaves the board (signed).
StepsOff ==
    LET h == HeadPosition(game)
        f == game'.player.facing
    IN  \/ h.x + f.x < 0 \/ h.x + f.x >= WIDTH
        \/ h.y + f.y < 0 \/ h.y + f.y >= HEIGHT

\* C6: on a firing tick in which the head steps off the board, on any of
\* its four sides, dead is set.
C6_OutOfBounds == [][(FiredTick /\ StepsOff) => game'.dead]_vars

DiedAt(p) ==
    /\ last.event = "update" /\ last.branch = "move"
    /\ game.dead
    /\ HeadPosition(game) = p

\* The head has stepped left from x = 0 and wrapped.
C6_Witness == \E y \in 0..(HEIGHT - 1) : DiedAt(Position(USIZE - 1, y))

\* The other three sides.
C6_OffTop == \E x \in 0..(WIDTH - 1) : DiedAt(Position(x, USIZE - 1))
C6_OffRight == \E y \in 0..(HEIGHT - 1) : DiedAt(Position(WIDTH, y))
C6_OffBottom == \E x \in 0..(WIDTH - 1) : DiedAt(Position(x, HEIGHT))

\* A step of the input system, and one that restarts.
InputFrame == phase = "input" /\ phase' = "update"

Restart == InputFrame /\ last'.r

StartRow ==
    <<Position(5, 5), Position(6, 5), Position(7, 5), Position(8, 5),
      Position(9, 5)>>

\* C7: once dead is true, no frame without a restart changes dead, the
\* segments, the facing, the food position or the pending directions; a
\* step from dead to not dead is a restart, and the Game it installs shares
\* no entity with the dead one.
C7_DeadIsTerminal ==
    [][game.dead =>
          /\ ~Restart =>
                 /\ game'.dead
                 /\ game'.player = game.player
                 /\ game'.food[1].position = game.food[1].position
                 /\ game'.input_queue = game.input_queue
          /\ ~game'.dead =>
                 /\ Restart
                 /\ GameEntities(game') \cap GameEntities(game) = {}]_vars

\* Two arrow keys have just been pressed on a dead game.
C7_Witness ==
    /\ last.event = "input" /\ last.dead /\ ~last.r
    /\ Cardinality(last.keys) = 2
    /\ game.dead

\* An update has just run on a dead game.
C7_DeadUpdate == last.event = "update" /\ last.dead /\ game.dead

\* C8: a restart request leaves, at the end of the input phase of its
\* frame, a Game of 5 segments at (5,5)..(9,5), facing (1,0), not dead,
\* with no pending direction, a fresh timer and food on no segment; the
\* Game is new (it shares no entity with the old one, whose entities are
\* all despawned), so the tick of that frame runs on it.
C8_Restart ==
    [][Restart =>
          /\ Positions(game'.player.nodes) = StartRow
          /\ game'.player.facing = Offset(1, 0)
          /\ ~game'.dead
          /\ game'.input_queue = <<>>
          /\ game'.tick_timer = Timer
          /\ InBoard(game'.food[1].position)
          /\ ~Occupied(game'.player.nodes, game'.food[1].position)
          /\ GameEntities(game') \cap GameEntities(game) = {}
          /\ entities' = GameEntities(game')]_vars

\* A restart has just been done on a live game with two arrow keys pressed
\* in the same frame.
C8_Witness ==
    /\ last.event = "input" /\ last.r /\ ~last.dead
    /\ Cardinality(last.keys) = 2
    /\ frame > 1

\* A restart has just been done on a dead game.
C8_FromDead == last.event = "input" /\ last.r /\ last.dead /\ ~game.dead

Range(q) == {q[i] : i \in 1..Len(q)}

\* C9: on a frame without restart, while the game is alive the queue gains
\* at its back exactly one entry for each arrow key pressed, whatever the
\* timer did since the last press, and nothing else of the Game changes;
\* while it is dead the queue is unchanged.  Restart and exit are acted on
\* when dead too.
C9_InputBuffering ==
    [][InputFrame =>
          /\ (~game.dead /\ ~last'.r) =>
                 \E added \in [1..Cardinality(last'.keys) -> last'.keys] :
                     /\ Range(added) = last'.keys
                     /\ game' = [game EXCEPT !.input_queue = @ \o added]
          /\ (game.dead /\ ~last'.r) => game'.input_queue = game.input_queue
          /\ (game.dead /\ last'.r) => ~game'.dead
          /\ last'.esc => exit']_vars

\* An arrow press has just joined one still pending from an earlier frame.
C9_Witness ==
    /\ last.event = "input" /\ ~last.dead /\ ~last.r
    /\ Cardinality(last.keys) = 1
    /\ Len(game.input_queue) = 2
    /\ game.input_queue[2] \in last.keys
    /\ game.input_queue[1] # game.input_queue[2]

\* Escape has just been held on a dead game.
C9_DeadExit == last.event = "input" /\ last.dead /\ last.esc /\ exit

Created == last.event = "setup" \/ (last.event = "input" /\ last.r)

\* The first tick of a new Game, with no pending direction.
FirstTick ==
    /\ FiredTick
    /\ Positions(game.player.nodes) = StartRow
    /\ game.player.facing = Offset(1, 0)
    /\ game.input_queue = <<>>

MovedRow ==
    <<Position(6, 5), Position(7, 5), Position(8, 5), Position(9, 5),
      Position(10, 5)>>

\* C10 as stated: a new Game has 5 segments at (5,5)..(9,5) facing (1,0),
\* and after its first tick with no input the body is (6,5)..(10,5), not
\* dead, wherever the food was placed.
C10_AnyFood ==
    /\ [](Created => /\ Positions(game.player.nodes) = StartRow
                     /\ game.player.facing = Offset(1, 0))
    /\ [][FirstTick => /\ Positions(game'.player.nodes) = MovedRow
                       /\ ~game'.dead]_vars

\* C10, amended: the same for every food placement other than (10,5); with
\* the food at (10,5) the first tick eats: the head is at (10,5), the body
\* is (5,5)..(10,5), of length 6, and the game is not dead.
C10_FirstTick ==
    /\ [](Created => /\ Positions(game.player.nodes) = StartRow
                     /\ game.player.facing = Offset(1, 0))
    /\ [][FirstTick =>
             /\ ~game'.dead
             /\ HeadPosition(game') = Position(10, 5)
             /\ IF game.food[1].position # Position(10, 5)
                THEN Positions(game'.player.nodes) = MovedRow
                ELSE Positions(game'.player.nodes) =
                         StartRow \o <<Position(10, 5)>>]_vars

C10_Witness ==
    /\ last.event = "update" /\ last.branch = "move" /\ last.popped = <<>>
    /\ Positions(game.player.nodes) = MovedRow
    /\ game.player.facing = Offset(1, 0)
    /\ ~game.dead

\* C11: the live entities are exactly the handles the Game holds in its
\* nodes and its food, each held once; so the transforms a tick looks up
\* are of live entities, and a restart leaves none of the entities of the
\* Game it replaces alive.
C11_EntityOwnership ==
    /\ [](/\ entities = GameEntities(game)
          /\ Cardinality(GameEntities(game)) = Len(game.player.nodes) + 1)
    /\ [][FiredTick =>
             /\ \A i \in 1..Len(game.player.nodes) :
                    game.player.nodes[i].entity \in entities
             /\ game.food[1].entity \in entities]_vars
    /\ [][Restart => entities' \cap GameEntities(game) = {}]_vars

\* A restart has just replaced a Game that had grown by one node.
C11_Witness ==
    /\ last.event = "input" /\ last.r
    /\ next_entity = 14
    /\ entities = 8..13

\* C12: the Game always has its one food, and no step but a restart changes
\* the food's entity: an eat moves the food and keeps its handle.
C12_FoodReused ==
    /\ [](game.food # None /\ Len(game.food) = 1)
    /\ [][~Restart => game'.food[1].entity = game.food[1].entity]_vars
    /\ [][(FiredTick /\ NextHead = game.food[1].position) =>
             /\ game'.food[1].position # game.food[1].position
             /\ game'.food[1].entity = game.food[1].entity]_vars

\* An eat has just moved the food of the first Game.
C12_Witness ==
    /\ last.event = "update" /\ last.branch = "eat"
    /\ game.food[1].entity = 6
    /\ Len(game.player.nodes) = 6
    /\ game.player.nodes[6].entity = 7

Board ==
    {Position(x, y) : x \in 0..(WIDTH - 1), y \in 0..(HEIGHT - 1)}

SnakeCells == {game.player.nodes[i].position : i \in 1..Len(game.player.nodes)}

HasFreeCell == Cardinality(Board \cap SnakeCells) < WIDTH * HEIGHT

\* C13: a call of new_food with a board cell free of the snake ends, under
\* a fair generator, with the food on an in-board cell that no segment
\* occupies; with no cell free it never ends.
C13_FoodLoopEnds ==
    /\ (probe.pc = "new_food" /\ HasFreeCell) ~> (probe.pc = "broke")
    /\ [](probe.pc = "broke" =>
             /\ game.food # None
             /\ game.food[1].position \in Board \ SnakeCells)
    /\ [](~HasFreeCell => probe.pc = "new_food")

\* The loop has ended on the one cell a snake left free.
C13_Witness ==
    /\ probe.pc = "broke"
    /\ Len(game.player.nodes) = WIDTH * HEIGHT - 1
    /\ game.food[1].position = PathCell(0)

\* The loop is running on a full board.
C13_FullBoard == probe.pc = "new_food" /\ ~HasFreeCell

\* The distance between two cells, their coordinates read as integers.
Distance(p, q) ==
    (IF p.x >= q.x THEN p.x - q.x ELSE q.x - p.x)
        + (IF p.y >= q.y THEN p.y - q.y ELSE q.y - p.y)

\* Every two consecutive segments are one integer unit step apart.
GridAdjacent(nodes) ==
    \A i \in 1..(Len(nodes) - 1) :
        Distance(nodes[i].position, nodes[i + 1].position) = 1

\* Every segment is the one behind it plus a unit Offset.
StepAdjacent(nodes) ==
    \A i \in 1..(Len(nodes) - 1) :
        \E d \in Arrows : nodes[i + 1].position = Add(nodes[i].position, d)

\* C14 as stated: in every state consecutive segments are grid-adjacent.
C14_GridAdjacent == GridAdjacent(game.player.nodes)

\* C14: in every state each segment is the one behind it plus one unit
\* Offset under Position + Offset, which while dead = false is one integer
\* unit step in one coordinate; and the last segment is the head, placed by
\* each firing tick at old head + facing.
C14_BodyShape ==
    /\ [](StepAdjacent(game.player.nodes))
    /\ [](~game.dead => GridAdjacent(game.player.nodes))
    /\ [][FiredTick => HeadPosition(game') = NextHead]_vars

\* A dead snake whose head left by the left edge of row 4, its neck at x = 0.
C14_Witness ==
    /\ game.dead
    /\ last.event = "update" /\ last.branch = "move"
    /\ HeadPosition(game) = Position(USIZE - 1, 4)
    /\ game.player.nodes[Len(game.player.nodes) - 1].position = Position(0, 4)

\* The signed bounds test of p + d.
SignedOut(p, d) ==
    \/ p.x + d.x < 0 \/ p.x + d.x >= WIDTH
    \/ p.y + d.y < 0 \/ p.y + d.y >= HEIGHT

\* C15: for every in-board position p and unit offset d,
\* is_out_of_bounds(p + d) under the wrapping addition is true exactly when
\* the signed sum leaves the board.
C15_WrapIsSigned ==
    probe.pc = "return" => (probe.out <=> SignedOut(probe.p, probe.d))

\* A step left from column 0 wraps and is out of bounds.
C15_Witness ==
    /\ probe.pc = "return"
    /\ probe.p = Position(0, 7) /\ probe.d = ArrowLeft
    /\ probe.next = Position(USIZE - 1, 7)
    /\ probe.out

\* A step inside the board is not out of bounds.
C15_Inside ==
    /\ probe.pc = "return"
    /\ probe.p = Position(0, 7) /\ probe.d = ArrowRight
    /\ ~probe.out

\* A step of the update system, and the accumulator advanced by its delta.
UpdateFrame == phase = "update" /\ phase' = "input"

Advanced ==
    game'.tick_timer.elapsed =
        (game.tick_timer.elapsed + last'.delta) % TICK_PERIOD

\* C16 as stated: the accumulator advances on every frame, dead or not.
C16_EveryFrame == [][UpdateFrame => Advanced]_vars

\* C16: on every frame with dead = false, firing or not, the accumulator
\* advances by the frame's delta (modulo the period); on a frame with
\* dead = true the timer is not ticked and keeps its value.
C16_AliveFrames ==
    /\ [][(UpdateFrame /\ ~game.dead) => Advanced]_vars
    /\ [][(UpdateFrame /\ game.dead) => game'.tick_timer = game.tick_timer]_vars

\* A frame of a live game that fired nothing and advanced the accumulator.
C16_Witness ==
    /\ last.event = "update" /\ last.branch = "idle" /\ last.delta = 1
    /\ ~game.dead
    /\ game.tick_timer.elapsed = 1

\* A frame of a dead game, one delta of 1 short of the period.
C16_DeadFrame ==
    /\ last.event = "update" /\ last.delta = 1
    /\ game.dead /\ frame = MaxFrames
    /\ game.tick_timer.elapsed = 0

\* C17: in every state the food exists, lies inside the board, and is on
\* the cell of no snake segment.
C17_FoodOffSnake ==
    /\ game.food # None
    /\ InBoard(game.food[1].position)
    /\ \A i \in 1..Len(game.player.nodes) :
           game.player.nodes[i].position # game.food[1].position

\* Two ticks after an eat, the snake has moved on next to the new food.
C17_Witness ==
    /\ Len(game.player.nodes) = 6
    /\ last.event = "update" /\ last.branch = "move"
    /\ ~game.dead
    /\ Distance(HeadPosition(game), game.food[1].position) = 1

\* The segments are on pairwise distinct cells.
Distinct(nodes) ==
    \A i, j \in 1..Len(nodes) :
        nodes[i].position = nodes[j].position => i = j

\* C18: in every state with dead = false the segments are on pairwise
\* distinct cells inside the board; the snake has at least 5 segments in
\* every state, and no step but a restart makes it shorter.
C18_WellFormed ==
    /\ [](~game.dead =>
             /\ Distinct(game.player.nodes)
             /\ \A i \in 1..Len(game.player.nodes) :
                    InBoard(game.player.nodes[i].position))
    /\ [](Len(game.player.nodes) >= 5)
    /\ [][~Restart =>
             Len(game'.player.nodes) >= Len(game.player.nodes)]_vars

\* A live snake of six segments, heading left on the last frame.
C18_Witness ==
    /\ ~game.dead
    /\ frame = MaxFrames /\ last.event = "update" /\ last.branch = "move"
    /\ Len(game.player.nodes) = 6
    /\ game.player.facing = ArrowLeft

\* A restart of a game whose snake had grown.
C18_Regrown ==
    /\ last.event = "input" /\ last.r
    /\ Len(game.player.nodes) = 5
    /\ next_entity = 15

\* The segment just behind the head.
Neck(g) == g.player.nodes[Len(g.player.nodes) - 1]

\* C19: in every state the head is at neck + facing, and on no firing tick
\* is the head's next cell, taken with the selected facing, the cell of its
\* neck.
C19_FacingMatchesBody ==
    /\ [](HeadPosition(game) = Add(Neck(game).position, game.player.facing))
    /\ [][FiredTick => NextHead # Neck(game).position]_vars

\* A tick that dropped a queued reversal and turned down with the next key.
C19_Witness ==
    /\ last.event = "update" /\ last.branch = "move"
    /\ last.popped = <<ArrowLeft, ArrowDown>>
    /\ game.player.facing = ArrowDown
    /\ HeadPosition(game) = Position(9, 6)
    /\ Neck(game).position = Position(9, 5)

\* C20: on every firing tick whose next head cell is the food cell, dead is
\* still false after the collision check: the new head cell is inside the
\* board and exactly one segment, the new head, is on it.
C20_EatingNeverKills ==
    [][(FiredTick /\ NextHead = game.food[1].position) =>
          /\ ~game'.dead
          /\ Len(game'.player.nodes) = Len(game.player.nodes) + 1
          /\ HeadPosition(game') = game.food[1].position
          /\ InBoard(HeadPosition(game'))
          /\ Overlapping(game'.player.nodes, HeadPosition(game')) = 1]_vars

\* A live snake that has eaten twice, the second time after a turn.
C20_Witness ==
    /\ last.event = "update" /\ last.branch = "eat"
    /\ ~game.dead
    /\ Len(game.player.nodes) = 7
    /\ HeadPosition(game) = Position(10, 6)

====
